---- MODULE Spec2Model ----
(***************************************************************************)
(* State-transition model of the runtime in src/src: the balances pallet   *)
(* (balances.rs), the proof-of-existence pallet (proof_of_existence.rs),   *)
(* the system pallet (system.rs) and Runtime::execute_block / dispatch     *)
(* (main.rs).                                                              *)
(*                                                                         *)
(* Balance is u128 and BlockNumber / Nonce are u32 (main.rs:12-14).  The   *)
(* type maxima are far outside the range of the model checker's integers,  *)
(* so each type is modelled with a small maximum (MaxBalance,              *)
(* MaxBlockNumber, MaxNonce) that plays the role of u128::MAX / u32::MAX:  *)
(* checked_add fails exactly above it.                                     *)
(***************************************************************************)
EXTENDS Integers, Sequences, FiniteSets

\* ---------------------------------------------------------------- bounds
\* stand-in for u128::MAX, the largest Balance
MaxBalance == 100
\* stand-in for u32::MAX, the largest BlockNumber
MaxBlockNumber == 2
\* stand-in for u32::MAX, the largest Nonce
MaxNonce == 3
\* largest number of extrinsics in one block
MaxExtrinsics == 3

\* ------------------------------------------------------------ input sets
Accounts == {"alice", "bob", "charlie"}
Contents == {"my_document", "Generic Claim"}
\* the amounts of main (100, 40, 20) and zero
Amounts == {0, 20, 40, 100}

\* ------------------------------------------------------- DispatchResult
Ok == "Ok"
InsufficientBalance == "Insufficient balance"
BalanceOverflow == "Overflow when adding balance"
ClaimExists == "Claim already exists"
ClaimNotFound == "Claim does not exist"
NotClaimOwner == "The claim does not belong to Caller"
BlockNumberMismatch == "Block number mismatch"

VARIABLES
    balances,      \* balances::Pallet.balances : BTreeMap<AccountId, Balance>
    claims,        \* proof_of_existence::Pallet.claims : BTreeMap<Content, AccountId>
    block_number,  \* system::Pallet.block_number
    nonce,         \* system::Pallet.nonce : BTreeMap<AccountId, Nonce>
    pc,            \* "idle", "loop" (inside execute_block's for loop) or "panicked"
    block,         \* header and length of the block execute_block was last given
    idx,           \* loop index of execute_block: extrinsics taken so far
    ret,           \* what the last execute_block returned ("pending" until it does)
    last,          \* the last call made / extrinsic taken, with its result
    submitted      \* per account: extrinsics taken from blocks that passed the header check

vars == <<balances, claims, block_number, nonce, pc, block, idx, ret, last, submitted>>

\* a BTreeMap is a function whose domain is the set of keys present
EmptyMap == [k \in {} |-> 0]

insert(m, k, v) == [x \in DOMAIN m \cup {k} |-> IF x = k THEN v ELSE m[x]]

remove(m, k) == [x \in DOMAIN m \ {k} |-> m[x]]

\* Option<T>: None is the empty sequence, Some(v) is <<v>>
None == << >>

Some(v) == <<v>>

\* num::CheckedSub on an unsigned type
checked_sub(x, y) == IF y > x THEN None ELSE Some(x - y)

\* num::CheckedAdd on an unsigned type whose largest value is max
checked_add(x, y, max) == IF x + y > max THEN None ELSE Some(x + y)

\* ------------------------------------------------------------ balances.rs
balance(b, who) == IF who \in DOMAIN b THEN b[who] ELSE 0

set_balance(b, who, amount) == insert(b, who, amount)

\* transfer without the credit to the recipient (line 63 dropped)
transfer_debit_only(b, caller, to, amount) ==
    LET new_caller_balance == checked_sub(balance(b, caller), amount)
        new_to_balance == checked_add(balance(b, to), amount, MaxBalance)
    IN  IF new_caller_balance = None
        THEN [result |-> InsufficientBalance, balances |-> b]
        ELSE IF new_to_balance = None
        THEN [result |-> BalanceOverflow, balances |-> b]
        ELSE [result |-> Ok, balances |-> set_balance(b, caller, new_caller_balance[1])]

\* transfer with the recipient's addition checked before the sender's subtraction
transfer_add_first(b, caller, to, amount) ==
    LET new_caller_balance == checked_sub(balance(b, caller), amount)
        new_to_balance == checked_add(balance(b, to), amount, MaxBalance)
    IN  IF new_to_balance = None
        THEN [result |-> BalanceOverflow, balances |-> b]
        ELSE IF new_caller_balance = None
        THEN [result |-> InsufficientBalance, balances |-> b]
        ELSE [result |-> Ok,
              balances |-> set_balance(set_balance(b, caller, new_caller_balance[1]),
                                       to, new_to_balance[1])]

\* transfer with an unchecked addition for the recipient
transfer_unchecked_add(b, caller, to, amount) ==
    LET new_caller_balance == checked_sub(balance(b, caller), amount)
    IN  IF new_caller_balance = None
        THEN [result |-> InsufficientBalance, balances |-> b]
        ELSE [result |-> Ok,
              balances |-> set_balance(set_balance(b, caller, new_caller_balance[1]),
                                       to, balance(b, to) + amount)]

\* the result and the ledger after Pallet::transfer
transfer(b, caller, to, amount) ==
    LET caller_balance == balance(b, caller)
        to_balance == balance(b, to)
        new_caller_balance == checked_sub(caller_balance, amount)
        new_to_balance == checked_add(to_balance, amount, MaxBalance)
    IN  IF new_caller_balance = None
        THEN [result |-> InsufficientBalance, balances |-> b]
        ELSE IF new_to_balance = None
        THEN [result |-> BalanceOverflow, balances |-> b]
        ELSE [result |-> Ok,
              balances |-> set_balance(set_balance(b, caller, new_caller_balance[1]),
                                       to, new_to_balance[1])]

\* sum of all recorded balances
RECURSIVE SumOver(_, _)
SumOver(b, S) ==
    IF S = {} THEN 0
    ELSE LET a == CHOOSE x \in S : TRUE IN b[a] + SumOver(b, S \ {a})

TotalBalance(b) == SumOver(b, DOMAIN b)

\* -------------------------------------------------- proof_of_existence.rs
get_claim(c, claim) == IF claim \in DOMAIN c THEN Some(c[claim]) ELSE None

\* create_claim that refuses only the owner's own repeat and lets another
\* caller's insert overwrite the entry
create_claim_overwrite(c, caller, claim) ==
    IF get_claim(c, claim) = Some(caller)
    THEN [result |-> ClaimExists, claims |-> c]
    ELSE [result |-> Ok, claims |-> insert(c, claim, caller)]

\* the result and the registry after Pallet::create_claim
create_claim(c, caller, claim) ==
    IF get_claim(c, claim) # None
    THEN [result |-> ClaimExists, claims |-> c]
    ELSE [result |-> Ok, claims |-> insert(c, claim, caller)]

\* revoke_claim without the ownership check (lines 57-59 dropped)
revoke_claim_any_caller(c, caller, claim) ==
    IF get_claim(c, claim) = None
    THEN [result |-> ClaimNotFound, claims |-> c]
    ELSE [result |-> Ok, claims |-> remove(c, claim)]

\* revoke_claim that leaves a tombstone: the entry is kept, with no owner
revoke_claim_tombstone(c, caller, claim) ==
    LET claim_owner == get_claim(c, claim)
    IN  IF claim_owner = None
        THEN [result |-> ClaimNotFound, claims |-> c]
        ELSE IF claim_owner[1] # caller
        THEN [result |-> NotClaimOwner, claims |-> c]
        ELSE [result |-> Ok, claims |-> insert(c, claim, "")]

\* the result and the registry after Pallet::revoke_claim
revoke_claim(c, caller, claim) ==
    LET claim_owner == get_claim(c, claim)
    IN  IF claim_owner = None
        THEN [result |-> ClaimNotFound, claims |-> c]
        ELSE IF claim_owner[1] # caller
        THEN [result |-> NotClaimOwner, claims |-> c]
        ELSE [result |-> Ok, claims |-> remove(c, claim)]

\* ---------------------------------------------------------------- system.rs
\* inc_block_number on a type one value narrower: wraps one step early
inc_block_number_early_wrap(bn) ==
    LET new_block_number == checked_add(bn, 1, MaxBlockNumber - 1)
    IN  IF new_block_number = None THEN 0 ELSE new_block_number[1]

\* inc_block_number that saturates at the largest value instead of wrapping
inc_block_number_saturating(bn) ==
    LET new_block_number == checked_add(bn, 1, MaxBlockNumber)
    IN  IF new_block_number = None THEN bn ELSE new_block_number[1]

\* the block number after Pallet::inc_block_number
inc_block_number(bn) ==
    LET new_block_number == checked_add(bn, 1, MaxBlockNumber)
    IN  IF new_block_number = None THEN 0 ELSE new_block_number[1]

\* inc_nonce that saturates at the largest value instead of panicking
inc_nonce_saturating(n, who) ==
    LET old == IF who \in DOMAIN n THEN n[who] ELSE 0
        new_nonce == checked_add(old, 1, MaxNonce)
    IN  IF new_nonce = None THEN Some(insert(n, who, old)) ELSE Some(insert(n, who, new_nonce[1]))

\* Pallet::inc_nonce: Some(map after the insert), or None where unwrap() panics
inc_nonce(n, who) ==
    LET old == IF who \in DOMAIN n THEN n[who] ELSE 0
        new_nonce == checked_add(old, 1, MaxNonce)
    IN  IF new_nonce = None THEN None ELSE Some(insert(n, who, new_nonce[1]))

\* ------------------------------------------------------------------ main.rs
\* balances::Call
TransferCall(to, amount) == [kind |-> "Transfer", to |-> to, amount |-> amount]

\* proof_of_existence::Call
CreateClaimCall(claim) == [kind |-> "CreateClaim", claim |-> claim]

RevokeClaimCall(claim) == [kind |-> "RevokeClaim", claim |-> claim]

\* RuntimeCall
BalancesCall(call) == [pallet |-> "Balances", call |-> call]

ProofOfExistenceCall(call) == [pallet |-> "ProofOfExistence", call |-> call]

\* impl Dispatch for balances::Pallet
balances_dispatch(b, caller, call) == transfer(b, caller, call.to, call.amount)

\* the pallet's dispatch with the two match arms' bodies exchanged
poe_dispatch_swapped(c, caller, call) ==
    IF call.kind = "CreateClaim"
    THEN revoke_claim(c, caller, call.claim)
    ELSE create_claim(c, caller, call.claim)

\* impl Dispatch for proof_of_existence::Pallet
poe_dispatch(c, caller, call) ==
    IF call.kind = "CreateClaim"
    THEN create_claim(c, caller, call.claim)
    ELSE revoke_claim(c, caller, call.claim)

\* impl Dispatch for Runtime: the result and both pallets' state afterwards
dispatch(b, c, caller, runtime_call) ==
    IF runtime_call.pallet = "Balances"
    THEN LET r == balances_dispatch(b, caller, runtime_call.call)
         IN  [result |-> r.result, balances |-> r.balances, claims |-> c]
    ELSE LET r == poe_dispatch(c, caller, runtime_call.call)
         IN  [result |-> r.result, balances |-> b, claims |-> r.claims]

\* ----------------------------------------------------------------- state
Init ==
    /\ balances = EmptyMap
    /\ claims = EmptyMap
    /\ block_number = 0
    /\ nonce = EmptyMap
    /\ pc = "idle"
    /\ block = [header |-> 0, len |-> 0]
    /\ idx = 0
    /\ ret = "pending"
    /\ last = [op |-> "new"]
    /\ submitted = [a \in Accounts |-> 0]

\* the driver seeds an account (main.rs:105-106; every test of balances.rs)
SetBalance(who, amount) ==
    /\ pc = "idle"
    /\ balances' = set_balance(balances, who, amount)
    /\ last' = [op |-> "set_balance", who |-> who, amount |-> amount]
    /\ UNCHANGED <<claims, block_number, nonce, pc, block, idx, ret, submitted>>

\* a direct call of Pallet::transfer
Transfer(caller, to, amount) ==
    /\ pc = "idle"
    /\ LET r == transfer(balances, caller, to, amount)
       IN  /\ balances' = r.balances
           /\ last' = [op |-> "transfer", caller |-> caller, to |-> to,
                       amount |-> amount, result |-> r.result]
    /\ UNCHANGED <<claims, block_number, nonce, pc, block, idx, ret, submitted>>

\* the balances pallet on its own, as its unit tests drive it
NextBalances ==
    \/ \E who \in Accounts, amount \in Amounts : SetBalance(who, amount)
    \/ \E caller \in Accounts, to \in Accounts, amount \in Amounts :
           Transfer(caller, to, amount)

SpecBalances == Init /\ [][NextBalances]_vars

\* a direct call of Pallet::create_claim
CreateClaim(caller, claim) ==
    /\ pc = "idle"
    /\ LET r == create_claim(claims, caller, claim)
       IN  /\ claims' = r.claims
           /\ last' = [op |-> "create_claim", caller |-> caller, claim |-> claim,
                       result |-> r.result, before |-> claims]
    /\ UNCHANGED <<balances, block_number, nonce, pc, block, idx, ret, submitted>>

\* a direct call of Pallet::revoke_claim
RevokeClaim(caller, claim) ==
    /\ pc = "idle"
    /\ LET r == revoke_claim(claims, caller, claim)
       IN  /\ claims' = r.claims
           /\ last' = [op |-> "revoke_claim", caller |-> caller, claim |-> claim,
                       result |-> r.result]
    /\ UNCHANGED <<balances, block_number, nonce, pc, block, idx, ret, submitted>>

\* the proof-of-existence pallet on its own, as its unit tests drive it
NextPoE ==
    \/ \E caller \in Accounts, claim \in Contents : CreateClaim(caller, claim)
    \/ \E caller \in Accounts, claim \in Contents : RevokeClaim(caller, claim)

SpecPoE == Init /\ [][NextPoE]_vars

\* ------------------------------------------------------ Runtime (main.rs)
\* the callers, recipients, amounts and contents the driver's blocks draw on
BlockAccounts == {"alice", "bob"}

BlockAmounts == {100}

\* the balances main seeds before the first block
GenesisAmounts == {0, 100}

BlockContents == {"Generic Claim"}

RuntimeCalls ==
    {BalancesCall(TransferCall(to, amount)) : to \in BlockAccounts, amount \in BlockAmounts}
    \cup {ProofOfExistenceCall(CreateClaimCall(claim)) : claim \in BlockContents}
    \cup {ProofOfExistenceCall(RevokeClaimCall(claim)) : claim \in BlockContents}

\* no execute_block call has been made yet
AtGenesis == pc = "idle" /\ ret = "pending"

\* the driver seeds the ledger before the first block (main.rs:105-106)
Genesis(who, amount) == AtGenesis /\ SetBalance(who, amount)

\* execute_block without the header check (lines 58-60 dropped)
ExecuteBlock_unchecked(h, n) ==
    /\ pc = "idle"
    /\ block_number' = inc_block_number(block_number)
    /\ block' = [header |-> h, len |-> n]
    /\ idx' = 0
    /\ last' = [op |-> "execute_block"]
    /\ IF n = 0
       THEN pc' = "idle" /\ ret' = Ok
       ELSE pc' = "loop" /\ ret' = "pending"
    /\ UNCHANGED <<balances, claims, nonce, submitted>>

\* execute_block that compares the header with the next block number first
\* and increments only when they agree
ExecuteBlockOf_check_first(b) ==
    /\ pc = "idle"
    /\ block' = b
    /\ idx' = 0
    /\ last' = [op |-> "execute_block"]
    /\ IF inc_block_number(block_number) # b.header
       THEN pc' = "idle" /\ ret' = BlockNumberMismatch /\ UNCHANGED block_number
       ELSE /\ block_number' = inc_block_number(block_number)
            /\ IF b.len = 0
               THEN pc' = "idle" /\ ret' = Ok
               ELSE pc' = "loop" /\ ret' = "pending"
    /\ UNCHANGED <<balances, claims, nonce, submitted>>

\* Runtime::execute_block up to the for loop: the block number is incremented,
\* then compared with the header (b.header: the header's block_number, b.len:
\* the number of extrinsics in the block)
ExecuteBlockOf(b) ==
    /\ pc = "idle"
    /\ block_number' = inc_block_number(block_number)
    /\ block' = b
    /\ idx' = 0
    /\ last' = [op |-> "execute_block"]
    /\ IF block_number' # b.header
       THEN pc' = "idle" /\ ret' = BlockNumberMismatch
       ELSE IF b.len = 0
       THEN pc' = "idle" /\ ret' = Ok
       ELSE pc' = "loop" /\ ret' = "pending"
    /\ UNCHANGED <<balances, claims, nonce, submitted>>

\* execute_block on a block of n extrinsics that the driver hands over one by
\* one as the loop takes them
ExecuteBlock(h, n) == ExecuteBlockOf([header |-> h, len |-> n])

\* the for loop with the dispatch error propagated by ? instead of logged:
\* the first failing extrinsic ends the block with its error
ApplyExtrinsic_abort(caller, call) ==
    /\ pc = "loop"
    /\ submitted' = [submitted EXCEPT ![caller] = @ + 1]
    /\ LET n == inc_nonce(nonce, caller)
       IN  IF n = None
           THEN /\ pc' = "panicked"
                /\ ret' = "panic"
                /\ last' = [op |-> "extrinsic", idx |-> idx, caller |-> caller,
                            call |-> call, result |-> "panic"]
                /\ UNCHANGED <<balances, claims, nonce, idx>>
           ELSE LET r == dispatch(balances, claims, caller, call)
                IN  /\ nonce' = n[1]
                    /\ balances' = r.balances
                    /\ claims' = r.claims
                    /\ last' = [op |-> "extrinsic", idx |-> idx, caller |-> caller,
                                call |-> call, result |-> r.result]
                    /\ idx' = idx + 1
                    /\ IF r.result # Ok
                       THEN pc' = "idle" /\ ret' = r.result
                       ELSE IF idx' = block.len
                       THEN pc' = "idle" /\ ret' = Ok
                       ELSE pc' = "loop" /\ ret' = "pending"
    /\ UNCHANGED <<block_number, block>>

\* the for loop with inc_nonce moved after dispatch and run only when the
\* dispatch succeeded
ApplyExtrinsic_nonce_on_success(caller, call) ==
    /\ pc = "loop"
    /\ submitted' = [submitted EXCEPT ![caller] = @ + 1]
    /\ LET r == dispatch(balances, claims, caller, call)
           n == IF r.result = Ok THEN inc_nonce(nonce, caller) ELSE Some(nonce)
       IN  IF n = None
           THEN /\ pc' = "panicked"
                /\ ret' = "panic"
                /\ balances' = r.balances
                /\ claims' = r.claims
                /\ last' = [op |-> "extrinsic", idx |-> idx, caller |-> caller,
                            call |-> call, result |-> "panic"]
                /\ UNCHANGED <<nonce, idx>>
           ELSE /\ nonce' = n[1]
                /\ balances' = r.balances
                /\ claims' = r.claims
                /\ last' = [op |-> "extrinsic", idx |-> idx, caller |-> caller,
                            call |-> call, result |-> r.result]
                /\ idx' = idx + 1
                /\ IF idx' = block.len
                   THEN pc' = "idle" /\ ret' = Ok
                   ELSE pc' = "loop" /\ ret' = "pending"
    /\ UNCHANGED <<block_number, block>>

\* one iteration of execute_block's for loop, on the extrinsic at index idx:
\* inc_nonce (which may panic), dispatch, the error (if any) logged and dropped;
\* after the last extrinsic execute_block returns Ok
ApplyExtrinsic(caller, call) ==
    /\ pc = "loop"
    /\ submitted' = [submitted EXCEPT ![caller] = @ + 1]
    /\ LET n == inc_nonce(nonce, caller)
       IN  IF n = None
           THEN /\ pc' = "panicked"
                /\ ret' = "panic"
                /\ last' = [op |-> "extrinsic", idx |-> idx, caller |-> caller,
                            call |-> call, result |-> "panic"]
                /\ UNCHANGED <<balances, claims, nonce, idx>>
           ELSE LET r == dispatch(balances, claims, caller, call)
                IN  /\ nonce' = n[1]
                    /\ balances' = r.balances
                    /\ claims' = r.claims
                    /\ last' = [op |-> "extrinsic", idx |-> idx, caller |-> caller,
                                call |-> call, result |-> r.result]
                    /\ idx' = idx + 1
                    /\ IF idx' = block.len
                       THEN pc' = "idle" /\ ret' = Ok
                       ELSE pc' = "loop" /\ ret' = "pending"
    /\ UNCHANGED <<block_number, block>>

\* the driver: genesis, then blocks
Next ==
    \/ \E who \in BlockAccounts, amount \in GenesisAmounts : Genesis(who, amount)
    \/ \E h \in 0..MaxBlockNumber, n \in 0..MaxExtrinsics : ExecuteBlock(h, n)
    \/ \E caller \in BlockAccounts, call \in RuntimeCalls : ApplyExtrinsic(caller, call)

Spec == Init /\ [][Next]_vars

\* ------------------------------------------------ system pallet on its own
\* a direct call of Pallet::inc_block_number
IncBlockNumber ==
    /\ pc = "idle"
    /\ block_number' = inc_block_number(block_number)
    /\ last' = [op |-> "inc_block_number"]
    /\ UNCHANGED <<balances, claims, nonce, pc, block, idx, ret, submitted>>

\* a direct call of Pallet::inc_nonce; the unwrap() of line 35 panics on None
IncNonce(who) ==
    /\ pc = "idle"
    /\ LET n == inc_nonce(nonce, who)
       IN  IF n = None
           THEN /\ pc' = "panicked"
                /\ last' = [op |-> "inc_nonce", who |-> who, result |-> "panic"]
                /\ UNCHANGED nonce
           ELSE /\ pc' = "idle"
                /\ nonce' = n[1]
                /\ last' = [op |-> "inc_nonce", who |-> who, result |-> "returned"]
    /\ UNCHANGED <<balances, claims, block_number, block, idx, ret, submitted>>

\* the system pallet as its unit tests drive it
NextSystem ==
    \/ IncBlockNumber
    \/ \E who \in Accounts : IncNonce(who)

SpecSystem == Init /\ [][NextSystem]_vars

\* ------------------------------------------- Runtime::dispatch on its own
DispatchCalls ==
    {BalancesCall(TransferCall(to, amount)) : to \in BlockAccounts, amount \in Amounts}
    \cup {ProofOfExistenceCall(CreateClaimCall(claim)) : claim \in BlockContents}
    \cup {ProofOfExistenceCall(RevokeClaimCall(claim)) : claim \in BlockContents}

\* a direct call of Runtime::dispatch
Dispatch(caller, runtime_call) ==
    /\ pc = "idle"
    /\ LET r == dispatch(balances, claims, caller, runtime_call)
       IN  /\ balances' = r.balances
           /\ claims' = r.claims
           /\ last' = [op |-> "dispatch", caller |-> caller, call |-> runtime_call,
                       result |-> r.result]
    /\ UNCHANGED <<block_number, nonce, pc, block, idx, ret, submitted>>

NextDispatch ==
    \/ \E who \in BlockAccounts, amount \in Amounts : SetBalance(who, amount)
    \/ \E caller \in BlockAccounts, call \in DispatchCalls : Dispatch(caller, call)

SpecDispatch == Init /\ [][NextDispatch]_vars

\* ------------------------- the claim registry reached by every path to it
\* the proof-of-existence calls a caller can make
ClaimCalls ==
    {ProofOfExistenceCall(CreateClaimCall(claim)) : claim \in Contents}
    \cup {ProofOfExistenceCall(RevokeClaimCall(claim)) : claim \in Contents}

\* create_claim and revoke_claim called on the pallet, through
\* Runtime::dispatch, and as extrinsics of executed blocks
NextClaims ==
    \/ \E caller \in BlockAccounts, claim \in Contents : CreateClaim(caller, claim)
    \/ \E caller \in BlockAccounts, claim \in Contents : RevokeClaim(caller, claim)
    \/ \E caller \in BlockAccounts, call \in ClaimCalls : Dispatch(caller, call)
    \/ \E h \in 0..MaxBlockNumber, n \in 0..MaxExtrinsics : ExecuteBlock(h, n)
    \/ \E caller \in BlockAccounts, call \in ClaimCalls : ApplyExtrinsic(caller, call)

SpecClaims == Init /\ [][NextClaims]_vars

\* ------------------------------------------------------- main (main.rs)
Extrinsic(caller, call) == [caller |-> caller, call |-> call]

\* the extrinsics main builds
TransferToBob == Extrinsic("alice", BalancesCall(TransferCall("bob", 40)))

TransferToCharlie == Extrinsic("alice", BalancesCall(TransferCall("charlie", 20)))

CreateGenericClaim ==
    Extrinsic("alice", ProofOfExistenceCall(CreateClaimCall("Generic Claim")))

MainExtrinsics == {TransferToBob, TransferToCharlie, CreateGenericClaim}

Block(h, extrinsics) ==
    [header |-> h, len |-> Len(extrinsics), extrinsics |-> extrinsics]

\* block_1 of main
Block1 == Block(1, <<TransferToBob, TransferToCharlie, TransferToCharlie>>)

\* poe_block of main
PoeBlock == Block(2, <<CreateGenericClaim>>)

\* every sequence over S of length at most n
RECURSIVE SeqsUpTo(_, _)
SeqsUpTo(S, n) ==
    IF n = 0 THEN {<< >>}
    ELSE LET shorter == SeqsUpTo(S, n - 1)
         IN  shorter \cup {Append(q, x) : q \in shorter, x \in S}

\* the block numbers of main's two headers
MainHeaders == {1, 2}

\* the blocks a driver can build from main's extrinsics; block_1 and poe_block
\* are two of them
MainBlocks ==
    {Block(h, q) : h \in MainHeaders, q \in SeqsUpTo(MainExtrinsics, MaxExtrinsics)}

\* the runtime as main has seeded it: balance(alice) = 100, balance(bob) = 0
InitMain ==
    /\ balances = set_balance(set_balance(EmptyMap, "alice", 100), "bob", 0)
    /\ claims = EmptyMap
    /\ block_number = 0
    /\ nonce = EmptyMap
    /\ pc = "idle"
    /\ block = [header |-> 0, len |-> 0]
    /\ idx = 0
    /\ ret = "pending"
    /\ last = [op |-> "set_balance", who |-> "bob", amount |-> 0]
    /\ submitted = [a \in Accounts |-> 0]

\* runtime.execute_block(block) on a block built beforehand
MainExecuteBlock(b) == ExecuteBlockOf(b)

\* ------------------------------------------- blocks with several callers
\* bob passes on what alice's transfer gave him
BobToCharlie == Extrinsic("bob", BalancesCall(TransferCall("charlie", 40)))

OrderExtrinsics == {TransferToBob, BobToCharlie, CreateGenericClaim}

\* blocks numbered 1, as block_1 of main is
OrderBlocks ==
    {Block(1, q) : q \in SeqsUpTo(OrderExtrinsics, MaxExtrinsics)}

\* execute_block on a block built beforehand; the block variable also keeps
\* the runtime state the call started from
OrderExecuteBlock(b) ==
    ExecuteBlockOf([header |-> b.header, len |-> b.len, extrinsics |-> b.extrinsics,
                    before |-> [balances |-> balances, claims |-> claims,
                                nonce |-> nonce, block_number |-> block_number]])

\* the for loop taking the block's extrinsics from the back
MainApplyExtrinsic_reversed ==
    /\ pc = "loop"
    /\ LET e == block.extrinsics[block.len - idx]
       IN  ApplyExtrinsic(e.caller, e.call)

\* the loop iteration on the block's extrinsic at index idx
MainApplyExtrinsic ==
    /\ pc = "loop"
    /\ LET e == block.extrinsics[idx + 1]
       IN  ApplyExtrinsic(e.caller, e.call)

NextMain ==
    \/ \E b \in MainBlocks : MainExecuteBlock(b)
    \/ MainApplyExtrinsic

SpecMain == InitMain /\ [][NextMain]_vars

NextOrder ==
    \/ \E b \in OrderBlocks : OrderExecuteBlock(b)
    \/ MainApplyExtrinsic

SpecOrder == InitMain /\ [][NextOrder]_vars

\* ------------------------------------------------- claims on balances.rs
\* the step is a transfer call (last' describes the call that made the step)
IsTransfer == last'.op = "transfer"

\* C1: every successful transfer, for any caller and recipient (not required
\* to be distinct) and any amount, leaves the sum of all balances unchanged.
C1_Conservation ==
    [][(IsTransfer /\ last'.result = Ok)
          => TotalBalance(balances') = TotalBalance(balances)]_vars

\* C2 as stated: whenever v <= balance(A), transfer(A,B,v) returns Ok, A is
\* debited by v and B is credited by v.
C2_Original ==
    [][(IsTransfer /\ last'.amount <= balance(balances, last'.caller))
          => /\ last'.result = Ok
             /\ balance(balances', last'.caller)
                    = balance(balances, last'.caller) - last'.amount
             /\ balance(balances', last'.to)
                    = balance(balances, last'.to) + last'.amount]_vars

\* C2 amended: whenever v <= balance(A) and balance(B) + v does not exceed the
\* largest Balance, transfer(A,B,v) returns Ok and B ends with old balance(B) + v;
\* when A and B are distinct, A ends with old balance(A) - v.
C2_TransferOk ==
    [][(/\ IsTransfer
        /\ last'.amount <= balance(balances, last'.caller)
        /\ balance(balances, last'.to) + last'.amount <= MaxBalance)
          => /\ last'.result = Ok
             /\ balance(balances', last'.to)
                    = balance(balances, last'.to) + last'.amount
             /\ (last'.caller # last'.to
                    => balance(balances', last'.caller)
                           = balance(balances, last'.caller) - last'.amount)]_vars

C2_Witness ==
    /\ last.op = "transfer"
    /\ last.result = Ok
    /\ last.caller # last.to
    /\ last.amount > 0
    /\ balance(balances, last.caller) > 0

\* C3: whenever v > balance(A) (an absent account counting as zero),
\* transfer(A,B,v) fails with InsufficientBalance and every account's balance
\* is what it was before the call.
C3_Insufficient ==
    [][(IsTransfer /\ last'.amount > balance(balances, last'.caller))
          => /\ last'.result = InsufficientBalance
             /\ \A a \in Accounts : balance(balances', a) = balance(balances, a)]_vars

\* an insufficient transfer from an account with no ledger entry to a
\* recipient whose balance could not take the amount either
C3_Witness ==
    /\ last.op = "transfer"
    /\ last.result = InsufficientBalance
    /\ last.caller \notin DOMAIN balances
    /\ balance(balances, last.to) + last.amount > MaxBalance

\* C4 as stated: whenever balance(B) + v exceeds the largest Balance,
\* transfer(A,B,v) fails with BalanceOverflow and leaves A's and B's balances
\* unchanged.
C4_Original ==
    [][(IsTransfer /\ balance(balances, last'.to) + last'.amount > MaxBalance)
          => /\ last'.result = BalanceOverflow
             /\ balance(balances', last'.caller) = balance(balances, last'.caller)
             /\ balance(balances', last'.to) = balance(balances, last'.to)]_vars

\* C4 amended: whenever balance(B) + v exceeds the largest Balance and
\* v <= balance(A), transfer(A,B,v) fails with BalanceOverflow; when
\* v > balance(A) as well it fails with InsufficientBalance instead; either
\* way A's and B's balances are unchanged.
C4_Overflow ==
    [][(IsTransfer /\ balance(balances, last'.to) + last'.amount > MaxBalance)
          => /\ last'.result = IF last'.amount <= balance(balances, last'.caller)
                               THEN BalanceOverflow
                               ELSE InsufficientBalance
             /\ balance(balances', last'.caller) = balance(balances, last'.caller)
             /\ balance(balances', last'.to) = balance(balances, last'.to)]_vars

C4_Witness ==
    /\ last.op = "transfer"
    /\ last.result = BalanceOverflow
    /\ last.caller # last.to
    /\ last.amount <= balance(balances, last.caller)
    /\ balance(balances, last.to) + last.amount > MaxBalance

\* ------------------------------------------------ claims on execute_block
\* the step is the entry of an execute_block call: increment, header check
IsExecuteBlock == last'.op = "execute_block"

\* the step is one iteration of execute_block's for loop
IsExtrinsic == last'.op = "extrinsic"

\* the recorded nonce of an account, zero when it has none
NonceOf(n, who) == IF who \in DOMAIN n THEN n[who] ELSE 0

\* C5 as stated: a block whose header is not the current block number plus
\* one is refused with BlockNumberMismatch, its extrinsics are not applied,
\* and balances, claims and nonces are unchanged.
C5_Original ==
    [][(IsExecuteBlock /\ block'.header # block_number + 1)
          => /\ ret' = BlockNumberMismatch
             /\ pc' = "idle"
             /\ balances' = balances /\ claims' = claims /\ nonce' = nonce]_vars

\* C5 amended: a block whose header is not the incremented block number (the
\* current block number plus one, or zero when the current block number is
\* the largest BlockNumber) is refused with BlockNumberMismatch, the for loop
\* is not entered, and balances, claims and nonces are unchanged.
C5_Mismatch ==
    [][(IsExecuteBlock
        /\ block'.header # (IF block_number = MaxBlockNumber THEN 0 ELSE block_number + 1))
          => /\ ret' = BlockNumberMismatch
             /\ pc' = "idle" /\ idx' = 0
             /\ balances' = balances /\ claims' = claims /\ nonce' = nonce]_vars

\* a refused block that carried extrinsics, on a seeded ledger
C5_Witness ==
    /\ last.op = "execute_block"
    /\ ret = BlockNumberMismatch
    /\ block.len > 0
    /\ block.header # block_number
    /\ balance(balances, "alice") > 0

\* C6: an execute_block call that returns BlockNumberMismatch leaves the whole
\* runtime state as it was, the System block number included.
C6_FailedBlockNoChange ==
    [][(IsExecuteBlock /\ ret' = BlockNumberMismatch)
          => /\ balances' = balances /\ claims' = claims /\ nonce' = nonce
             /\ block_number' = block_number]_vars

\* C7: an extrinsic whose dispatch fails changes neither pallet (what earlier
\* extrinsics of the block did stays done), has its nonce counted, and does
\* not end the loop: the next extrinsic is taken, and after the last one
\* execute_block returns Ok; execute_block never returns a dispatch error.
C7_FailureIsolation ==
    [][IsExtrinsic
          => /\ ret' \in {"pending", Ok, "panic"}
             /\ (last'.result \notin {Ok, "panic"}
                   => /\ balances' = balances /\ claims' = claims
                      /\ NonceOf(nonce', last'.caller) = NonceOf(nonce, last'.caller) + 1
                      /\ idx' = idx + 1
                      /\ IF idx' < block.len
                         THEN pc' = "loop" /\ ret' = "pending"
                         ELSE pc' = "idle" /\ ret' = Ok)]_vars

\* the first block, of the largest length, returned Ok although its last
\* extrinsic failed, and the claim an earlier extrinsic created is still there
C7_Witness ==
    /\ pc = "idle" /\ ret = Ok
    /\ block_number = 1 /\ block.len = MaxExtrinsics /\ idx = block.len
    /\ last.op = "extrinsic" /\ last.result \notin {Ok, "panic"}
    /\ claims # EmptyMap

\* C8: whenever execute_block has returned, every account's recorded nonce is
\* the number of extrinsics it submitted in blocks that passed the header
\* check, failed dispatches included; an account with none has no nonce entry.
C8_NonceCount ==
    pc = "idle"
      => \A a \in Accounts :
            /\ NonceOf(nonce, a) = submitted[a]
            /\ (a \in DOMAIN nonce <=> submitted[a] > 0)

\* an account has two extrinsics counted, the last of which failed, while
\* another account has none
C8_Witness ==
    /\ pc = "idle" /\ ret = Ok
    /\ last.op = "extrinsic" /\ last.result \notin {Ok, "panic"}
    /\ submitted[last.caller] >= 2
    /\ \E a \in BlockAccounts : a \notin DOMAIN nonce

\* C9 as stated: the block number starts at zero and never decreases.
C9_Original ==
    block_number = 0 /\ [][block_number' >= block_number]_vars

\* C9 amended: the block number starts at zero and never decreases, except
\* that from the largest BlockNumber value it wraps to zero.
C9_Monotone ==
    /\ block_number = 0
    /\ [][\/ block_number' >= block_number
          \/ (block_number = MaxBlockNumber /\ block_number' = 0)]_vars

\* the block number has been advanced past its first value
C9_Witness ==
    /\ block_number >= 2
    /\ last.op = "execute_block"

\* --------------------------------------- claims on proof_of_existence.rs
\* C10: create_claim on a content that already has an owner fails with
\* ClaimExists for every caller, the owner or not, and the content keeps its
\* original owner.
C10_ClaimExists ==
    [][(last'.op = "create_claim" /\ get_claim(claims, last'.claim) # None)
          => /\ last'.result = ClaimExists
             /\ get_claim(claims', last'.claim) = get_claim(claims, last'.claim)]_vars

\* a refused create_claim by an account that is not the owner
C10_Witness ==
    /\ last.op = "create_claim"
    /\ last.result = ClaimExists
    /\ get_claim(claims, last.claim) # None
    /\ get_claim(claims, last.claim) # Some(last.caller)

\* C11: revoke_claim on a content with no owner fails with ClaimNotFound; on a
\* content owned by another account it fails with NotClaimOwner; either way
\* the registry is unchanged, so the content keeps its original owner.
C11_RevokeErrors ==
    [][last'.op = "revoke_claim"
          => LET owner == get_claim(claims, last'.claim)
             IN  /\ (owner = None
                       => last'.result = ClaimNotFound /\ claims' = claims)
                 /\ ((owner # None /\ owner # Some(last'.caller))
                       => /\ last'.result = NotClaimOwner
                          /\ claims' = claims
                          /\ get_claim(claims', last'.claim) = owner)]_vars

\* a revoke refused because the caller is not the owner
C11_Witness ==
    /\ last.op = "revoke_claim"
    /\ last.result = NotClaimOwner
    /\ get_claim(claims, last.claim) # None
    /\ get_claim(claims, last.claim) # Some(last.caller)

\* C12: after a successful create_claim(A, c), get_claim(c) is A; when the next
\* call is a successful revoke_claim(A, c), get_claim(c) is None, the registry
\* is the registry before the create, and create_claim(B, c) succeeds for
\* every account B.
C12_RoundTrip ==
    [][/\ (last'.op = "create_claim" /\ last'.result = Ok)
             => get_claim(claims', last'.claim) = Some(last'.caller)
       /\ (/\ last.op = "create_claim" /\ last.result = Ok
           /\ last'.op = "revoke_claim" /\ last'.result = Ok
           /\ last'.caller = last.caller /\ last'.claim = last.claim)
             => /\ get_claim(claims', last'.claim) = None
                /\ claims' = last.before
                /\ \A b \in Accounts :
                       create_claim(claims', b, last'.claim).result = Ok]_vars

\* a claim was revoked by its owner while another content is still claimed
C12_Witness ==
    /\ last.op = "revoke_claim"
    /\ last.result = Ok
    /\ get_claim(claims, last.claim) = None
    /\ claims # EmptyMap

\* ------------------------------------------------------- claims on main
\* C13: on the runtime seeded with balance(alice) = 100 and balance(bob) = 0,
\* and with no extrinsic applied before, executing block 1 with Transfer(alice
\* to bob, 40), Transfer(alice to charlie, 20), Transfer(alice to charlie, 20)
\* returns Ok and leaves balance(alice) = 20, balance(bob) = 40,
\* balance(charlie) = 40 and nonce(alice) = 3.
Block1Executed ==
    /\ block = Block1
    /\ pc = "idle"
    /\ ret # BlockNumberMismatch
    /\ submitted["alice"] <= 3

C13_Scenario ==
    Block1Executed
      => /\ ret = Ok
         /\ balance(balances, "alice") = 20
         /\ balance(balances, "bob") = 40
         /\ balance(balances, "charlie") = 40
         /\ "alice" \in DOMAIN nonce /\ nonce["alice"] = 3

C13_Witness ==
    /\ Block1Executed
    /\ block_number = 1
    /\ last = [op |-> "extrinsic", idx |-> 2, caller |-> "alice",
               call |-> BalancesCall(TransferCall("charlie", 20)), result |-> Ok]

\* C14: the state after an accepted block is the state obtained from the state
\* before the call by incrementing the block number and then, for index
\* 0, 1, 2, ... in turn, performing inc_nonce(caller) followed by
\* dispatch(caller, call) on the running state.
RECURSIVE InOrder(_, _)
InOrder(st, extrinsics) ==
    IF extrinsics = << >> THEN st
    ELSE LET e == Head(extrinsics)
             n == inc_nonce(st.nonce, e.caller)
             r == dispatch(st.balances, st.claims, e.caller, e.call)
         IN  IF n = None THEN st
             ELSE InOrder([balances |-> r.balances, claims |-> r.claims,
                           nonce |-> n[1], block_number |-> st.block_number],
                          Tail(extrinsics))

BlockReturnedOk == pc = "idle" /\ ret = Ok /\ last.op \in {"execute_block", "extrinsic"}

C14_InArrayOrder ==
    BlockReturnedOk
      => LET start == [block.before EXCEPT !.block_number =
                          IF @ = MaxBlockNumber THEN 0 ELSE @ + 1]
         IN  [balances |-> balances, claims |-> claims, nonce |-> nonce,
              block_number |-> block_number] = InOrder(start, block.extrinsics)

\* bob had nothing before the block, alice's transfer at index 0 funded him and
\* his own transfer at index 1 succeeded
C14_Witness ==
    /\ BlockReturnedOk
    /\ block.extrinsics = <<TransferToBob, BobToCharlie>>
    /\ balance(block.before.balances, "bob") = 0
    /\ last.op = "extrinsic" /\ last.caller = "bob" /\ last.result = Ok
    /\ balance(balances, "charlie") = 40

\* ------------------------------------------------------ claims on dispatch
\* C15: dispatch(caller, Balances(Transfer{to, amount})) returns what
\* transfer(caller, to, amount) returns and changes the ledger as it does;
\* dispatch(caller, ProofOfExistence(CreateClaim / RevokeClaim{claim})) does
\* the same for create_claim / revoke_claim; the block number, the nonces and
\* the pallet not addressed are unchanged.
C15_PureRouting ==
    [][last'.op = "dispatch"
          => LET caller == last'.caller
                 call == last'.call.call
             IN  /\ block_number' = block_number /\ nonce' = nonce
                 /\ IF last'.call.pallet = "Balances"
                    THEN LET t == transfer(balances, caller, call.to, call.amount)
                         IN  /\ last'.result = t.result
                             /\ balances' = t.balances
                             /\ claims' = claims
                    ELSE LET p == IF call.kind = "CreateClaim"
                                  THEN create_claim(claims, caller, call.claim)
                                  ELSE revoke_claim(claims, caller, call.claim)
                         IN  /\ last'.result = p.result
                             /\ claims' = p.claims
                             /\ balances' = balances]_vars

\* a dispatched revoke removed the caller's claim while the ledger holds funds
C15_Witness ==
    /\ last.op = "dispatch"
    /\ last.call.pallet = "ProofOfExistence"
    /\ last.call.call.kind = "RevokeClaim"
    /\ last.result = Ok
    /\ claims = EmptyMap
    /\ balance(balances, "alice") > 0

\* ------------------------------------------------------ claims on system.rs
\* C16: inc_block_number never fails: it returns, having set the block number
\* to old + 1 when old is below the largest BlockNumber and to zero when old
\* is the largest.
C16_IncBlockNumber ==
    [][last'.op = "inc_block_number"
          => /\ pc' = "idle"
             /\ block_number' = IF block_number < MaxBlockNumber
                                THEN block_number + 1
                                ELSE 0]_vars

\* the block number is back at zero after a wrap
C16_Witness ==
    /\ last.op = "inc_block_number"
    /\ block_number = 0

\* C17: when the caller's nonce is the largest Nonce, the loop iteration ends
\* in a panic: no result is returned, no nonce is stored, the extrinsic is not
\* dispatched (both pallets are unchanged), and nothing runs afterwards, so
\* no later extrinsic is taken; a nonce never exceeds the largest Nonce.
C17_NoncePanic ==
    /\ [][(IsExtrinsic /\ NonceOf(nonce, last'.caller) = MaxNonce)
             => /\ pc' = "panicked" /\ ret' = "panic" /\ last'.result = "panic"
                /\ nonce' = nonce /\ balances' = balances /\ claims' = claims
                /\ idx' = idx]_vars
    /\ [][pc # "panicked"]_vars
    /\ [][\A a \in DOMAIN nonce' : nonce'[a] <= MaxNonce]_vars

\* the panic came on a create_claim that would have succeeded, with further
\* extrinsics of the block still to come
C17_Witness ==
    /\ pc = "panicked"
    /\ last.op = "extrinsic"
    /\ last.call = ProofOfExistenceCall(CreateClaimCall("Generic Claim"))
    /\ claims = EmptyMap
    /\ NonceOf(nonce, last.caller) = MaxNonce
    /\ idx + 1 < block.len

\* --------------------------------------------- claims the code implies
\* the block number from which inc_block_number leads to bn
PrevBlockNumber(bn) == IF bn = 0 THEN MaxBlockNumber ELSE bn - 1

\* C18: every execute_block call, returning Ok, entering the loop or returning
\* BlockNumberMismatch, moves the block number one step on (zero after the
\* largest), and nothing else moves it, so that from zero the block number
\* after n calls is n modulo the number of BlockNumber values; the call that
\* follows a block rejected at block number k is accepted exactly when its
\* header is two steps past k, and never with the header one step past k.
C18_EveryCallAdvances ==
    /\ [][IsExecuteBlock
             => block_number' = (block_number + 1) % (MaxBlockNumber + 1)]_vars
    /\ [][~IsExecuteBlock => block_number' = block_number]_vars
    /\ [][(IsExecuteBlock /\ ret = BlockNumberMismatch)
             => LET k == PrevBlockNumber(block_number)
                IN  /\ ret' # BlockNumberMismatch
                        <=> block'.header = (k + 2) % (MaxBlockNumber + 1)
                    /\ block'.header = (k + 1) % (MaxBlockNumber + 1)
                        => ret' = BlockNumberMismatch]_vars

\* a rejected call at the largest block number has wrapped it to zero
C18_Witness ==
    /\ last.op = "execute_block"
    /\ ret = BlockNumberMismatch
    /\ block_number = 0
    /\ block.header = MaxBlockNumber

\* C19: a transfer for which both checks would fail returns
\* InsufficientBalance; BalanceOverflow is returned exactly when the amount is
\* at most the caller's balance and the recipient's balance plus the amount
\* exceeds the largest Balance.
C19_Precedence ==
    [][IsTransfer
          => LET insufficient == last'.amount > balance(balances, last'.caller)
                 overflow == balance(balances, last'.to) + last'.amount > MaxBalance
             IN  /\ (insufficient /\ overflow) => last'.result = InsufficientBalance
                 /\ last'.result = BalanceOverflow <=> (~insufficient /\ overflow)]_vars

\* both checks would have failed, on a caller who holds a positive balance
C19_Witness ==
    /\ last.op = "transfer"
    /\ last.result = InsufficientBalance
    /\ balance(balances, last.caller) > 0
    /\ last.amount > balance(balances, last.caller)
    /\ balance(balances, last.to) + last.amount > MaxBalance

\* the proof-of-existence call a step made, by whichever path, as a record
\* [kind, caller, claim, result]; kind is "none" for every other step
ClaimStep ==
    IF last'.op = "create_claim"
    THEN [kind |-> "CreateClaim", caller |-> last'.caller, claim |-> last'.claim,
          result |-> last'.result]
    ELSE IF last'.op = "revoke_claim"
    THEN [kind |-> "RevokeClaim", caller |-> last'.caller, claim |-> last'.claim,
          result |-> last'.result]
    ELSE IF last'.op \in {"dispatch", "extrinsic"} /\ last'.call.pallet = "ProofOfExistence"
    THEN [kind |-> last'.call.call.kind, caller |-> last'.caller,
          claim |-> last'.call.call.claim, result |-> last'.result]
    ELSE [kind |-> "none", caller |-> "", claim |-> "", result |-> ""]

\* C20: a content stops being owned by A only in a step that is a successful
\* revoke_claim(A, c), after which it has no owner, and it gets an owner B only
\* from having none, in a step that is a successful create_claim(B, c); so
\* between being owned by A and by another B there lie a successful revoke by
\* A and a successful create by B, and no call by a non-owner removes or
\* reassigns a claim.
C20_OwnerOnly ==
    [][\A c \in Contents :
          LET old == get_claim(claims, c)
              new == get_claim(claims', c)
          IN  old # new
                => \/ /\ old # None /\ new = None
                      /\ ClaimStep = [kind |-> "RevokeClaim", caller |-> old[1],
                                      claim |-> c, result |-> Ok]
                   \/ /\ old = None /\ new # None
                      /\ ClaimStep = [kind |-> "CreateClaim", caller |-> new[1],
                                      claim |-> c, result |-> Ok]]_vars

\* a non-owner's revoke_claim, run as an extrinsic of a block, has left the
\* content with its owner
C20_Witness ==
    /\ last.op = "extrinsic"
    /\ last.call = ProofOfExistenceCall(RevokeClaimCall("my_document"))
    /\ last.result = NotClaimOwner
    /\ get_claim(claims, "my_document") # None
    /\ get_claim(claims, "my_document") # Some(last.caller)

====
